---- MODULE Spec2Model ----
(***************************************************************************)
(* Model of mautrix_googlechat/user.py (class User): the per-session       *)
(* entity cache (get_users, get_group, get_self), the supervisor loop      *)
(* (login_complete, start, stop, logout), the stream event observer        *)
(* (_in_background, on_stream_event), the post-connect sequence            *)
(* (on_connect, on_connect_later) and sync.  asyncio is single-threaded    *)
(* and cooperative: an action below is the code a coroutine runs between   *)
(* two suspension points (await of a network call, of a lock held by       *)
(* another task, of a sleep).                                              *)
(***************************************************************************)
EXTENDS Integers, Sequences, FiniteSets, TLC

\* ------------------------------------------------------------------ bounds
\* Number of concurrent callers of the entity cache; each makes one call.
NumTasks == 2
\* Longest id list passed to get_users.
MaxIds == 2
\* Seconds of wall-clock time, counted from Epoch, the supervisor is followed for.
MaxTime == 200

Tasks == 1..NumTasks
UserIds == {"u1", "u2"}
ConvIds == {"c1", "c2"}
\* The id proto_get_self_user_status reports for the account.
\* Events delivered by the stream in one run.
MaxEvents == 2
EventIdx == 1..MaxEvents
\* on_connect calls followed in one run.
MaxConnects == 2
ConnIdx == 1..MaxConnects
\* Conversations in the list sync() receives.
MaxItems == 3
SelfId == "me"
NoId == "none"
\* get_users(ids: List[str]): non-empty lists, duplicates allowed.
IdLists == UNION {[1..n -> UserIds] : n \in 1..MaxIds}

Range(s) == {s[i] : i \in 1..Len(s)}

VARIABLES
    \* --- session fields (User.__init__, lines 66-82)
    client,          \* self.client is not None
    gcid,            \* self.gcid (NoId when None)
    users,           \* keys of self.users
    groups,          \* keys of self.groups
    users_lock,      \* self.users_lock : [locked, waiters]
    groups_lock,     \* self.groups_lock
    intentional,     \* self._intentional_disconnect
    \* --- callers of the entity cache, one coroutine each
    pc, op, arg, req, res,
    \* --- history of the cache
    fetchCount,      \* per user id: get_users remote requests that named it
    clean,           \* no fetch so far failed or came back without a member
    lastFailed,      \* ids whose latest fetch failed
    waited,          \* "no", "queued" on a lock, or "saw_fail": queued while a
                     \* fetch that named one of its ids failed
    \* --- the supervisor loop started by login_complete (locals of start())
    lpc, last_disconnection, backoff, state_event, error_msg, notice,
    status,          \* the bridge state pushed last (push_bridge_state)
    now,             \* time.time()
    chan,            \* the pending connect() call: "idle", or "up" once the client
                     \* has fired on_connect for it
    \* --- the caller of stop() / logout()
    spc, smode,
    stopCalled,      \* stop() set the flag since the loop was created
    \* --- session fields cleared by logout (lines 47-48, 66-82)
    by_gcid,         \* keys of User.by_gcid that map to this session
    connected,       \* self.connected
    name_future,     \* self.name_future: "pending", "resolved" or "exception"
    \* --- a start() task created while an earlier one exists
    xpc,
    \* --- the event stream and the try_proxy tasks, one per delivered event
    h,               \* per event: position of its task and the fields still read
    delivered,       \* events the stream has handed to the observer
    lookups,         \* events for which Portal.get_by_gcid was called
    dispatchLog,     \* events in the order their portal handler was called
    streamWaits,     \* the task the stream is waiting for (0: none)
    streamError,     \* an exception reached the stream
    \* --- the on_connect_later tasks, one per on_connect
    ocl,             \* per task: its position
    nconn,           \* on_connect calls so far
    epc,             \* the observer the client is awaiting ("idle": none)
    \* --- one run of sync()
    world,           \* resp.world_items, as received
    max_sync,        \* config["bridge.initial_chat_sync"]
    mirror0,         \* conversations whose portal had an mxid when sync began
    mirror,          \* conversations whose portal has an mxid
    items,           \* the sorted list
    index,           \* the loop index
    created,         \* conversations passed to create_matrix_room, in order
    updated,         \* conversations passed to update_matrix_room, in order
    visited,         \* items the loop has looked at, in order
    syncpc

cacheVars == <<users, groups, users_lock, groups_lock, pc, op, arg, req, res,
               fetchCount, clean, lastFailed, waited>>
loopVars == <<intentional, lpc, last_disconnection, backoff, state_event,
              error_msg, notice, now, chan, spc, smode, stopCalled>>
supVars == <<loopVars, status>>
sessVars == <<by_gcid, connected, name_future>>
evVars == <<h, delivered, lookups, dispatchLog, streamWaits, streamError>>
connVars == <<ocl, nconn, epc>>
syncVars == <<world, max_sync, mirror0, mirror, items, index, created, updated,
              visited, syncpc>>
extVars == <<xpc, evVars, connVars, syncVars>>
\* extVars without the variables of one part of the model
nonLoginVars == <<evVars, connVars, syncVars>>
nonEvVars == <<xpc, connVars, syncVars>>
nonConnVars == <<xpc, evVars, syncVars>>
nonSyncVars == <<xpc, evVars, connVars>>
vars == <<client, gcid, cacheVars, supVars, sessVars, extVars>>

\* ------------------------------------------------------------ asyncio.Lock
NewLock == [locked |-> FALSE, waiters |-> <<>>]

\* Lock.acquire() takes the lock without suspending only when it is unlocked
\* and no earlier waiter is queued (FIFO hand-over).
LockFreeBroken(lock) == TRUE
LockFree(lock) == ~lock.locked /\ lock.waiters = <<>>

Take(lock) == [lock EXCEPT !.locked = TRUE]
Enqueue(lock, t) == [lock EXCEPT !.waiters = Append(@, t)]
\* Lock.release(): unlocked; the first waiter is woken and takes it when it runs.
Release(lock) == [lock EXCEPT !.locked = FALSE]
\* The woken waiter leaves the queue and sets locked.
Dequeue(lock) == [locked |-> TRUE, waiters |-> Tail(lock.waiters)]
CanResume(lock, t) == ~lock.locked /\ lock.waiters # <<>> /\ Head(lock.waiters) = t

\* ------------------------------------------------------------- get_users
\* req_ids: the requested ids not in self.users, in order (lines 310-311).
ReqIdsAll(idlist, cache) == idlist
ReqIds(idlist, cache) == SelectSeq(idlist, LAMBDA u : u \notin cache)

\* What a failed fetch leaves in the cache: the exception leaves line 314
\* before anything is stored.
CacheAfterFailureNegative(cache, r) == cache \cup Range(r)
CacheAfterFailure(cache, r) == cache

\* Who the exception of a failed fetch is raised in: the coroutine awaiting it.
FailureRecipientsAll(t) == {t} \cup {w \in Tasks : pc[w] = "lock_wait" /\ op[w] = op[t]
                                                    /\ Range(arg[w]) \cap Range(req[t]) # {}}
FailureRecipients(t) == {t}

\* return [self.users[user_id] for user_id in ids] (line 321)
LookupAll(idlist, cache) == IF Range(idlist) \subseteq cache THEN "ok" ELSE "key_error"

Bump(cnt, r) == [u \in UserIds |-> IF u \in Range(r) THEN cnt[u] + 1 ELSE cnt[u]]

\* Caller t leaves with result r, the lock released as `lock`: a return, or
\* the AttributeError of `self.client.` on a None client ("no_client").
Leave(t, r) ==
    /\ pc' = [pc EXCEPT ![t] = "done"]
    /\ arg' = [arg EXCEPT ![t] = <<>>]
    /\ req' = [req EXCEPT ![t] = <<>>]
    /\ res' = [res EXCEPT ![t] = r]

\* Lines 310-321 from the point the lock is held up to the next suspension:
\* either the request is sent (pc "fetch") or the call returns or raises.
UsersCritical(t, l, lock) ==
    LET r == ReqIds(l, users) IN
    IF r # <<>> /\ client
    THEN /\ pc' = [pc EXCEPT ![t] = "fetch"]
         /\ arg' = [arg EXCEPT ![t] = l]
         /\ req' = [req EXCEPT ![t] = r]
         /\ res' = res
         /\ users_lock' = lock
         /\ fetchCount' = Bump(fetchCount, r)
         /\ lastFailed' = lastFailed \ Range(r)
    ELSE /\ Leave(t, IF r # <<>> THEN "no_client" ELSE LookupAll(l, users))
         /\ users_lock' = Release(lock)
         /\ UNCHANGED <<fetchCount, lastFailed>>

\* get_users called: async with self.users_lock (line 309).
CallGetUsers(t, l) ==
    /\ pc[t] = "idle"
    /\ op' = [op EXCEPT ![t] = "get_users"]
    /\ IF LockFree(users_lock)
       THEN /\ UsersCritical(t, l, Take(users_lock))
            /\ UNCHANGED waited
       ELSE /\ pc' = [pc EXCEPT ![t] = "lock_wait"]
            /\ arg' = [arg EXCEPT ![t] = l]
            /\ users_lock' = Enqueue(users_lock, t)
            /\ waited' = [waited EXCEPT ![t] = "queued"]
            /\ UNCHANGED <<req, res, fetchCount, lastFailed>>
    /\ UNCHANGED <<client, gcid, users, groups, groups_lock, clean, supVars, sessVars, extVars>>

\* A caller queued on users_lock is woken and enters the critical section.
ResumeGetUsers(t) ==
    /\ pc[t] = "lock_wait" /\ op[t] = "get_users"
    /\ CanResume(users_lock, t)
    /\ UsersCritical(t, arg[t], Dequeue(users_lock))
    /\ UNCHANGED <<client, gcid, users, groups, groups_lock, op, clean, waited, supVars, sessVars, extVars>>

\* proto_get_members answers with the members `got` (lines 314-321).
FetchMembersOk(t, got) ==
    /\ pc[t] = "fetch" /\ op[t] = "get_users"
    /\ got \subseteq Range(req[t])
    /\ users' = users \cup got
    /\ users_lock' = Release(users_lock)
    /\ pc' = [pc EXCEPT ![t] = "done"]
    /\ res' = [res EXCEPT ![t] = LookupAll(arg[t], users')]
    /\ req' = [req EXCEPT ![t] = <<>>]
    /\ arg' = [arg EXCEPT ![t] = <<>>]
    /\ clean' = (clean /\ got = Range(req[t]))
    /\ UNCHANGED <<client, gcid, groups, groups_lock, op, fetchCount, lastFailed,
                   waited, supVars, sessVars, extVars>>

\* The effect of a fetch of caller t raising, on every caller.
Raise(t) ==
    /\ pc' = [w \in Tasks |-> IF w \in FailureRecipients(t) THEN "done" ELSE pc[w]]
    /\ res' = [w \in Tasks |-> IF w \in FailureRecipients(t) THEN "fetch_error" ELSE res[w]]
    /\ req' = [req EXCEPT ![t] = <<>>]
    /\ arg' = [w \in Tasks |-> IF w \in FailureRecipients(t) THEN <<>> ELSE arg[w]]
    /\ waited' = [w \in Tasks |->
                    IF /\ pc[w] = "lock_wait" /\ op[w] = op[t]
                       /\ Range(arg[w]) \cap Range(req[t]) # {}
                    THEN "saw_fail" ELSE waited[w]]
    /\ lastFailed' = lastFailed \cup Range(req[t])
    /\ clean' = FALSE

\* proto_get_members raises: the exception leaves the async with block.
FetchMembersFail(t) ==
    /\ pc[t] = "fetch" /\ op[t] = "get_users"
    /\ users' = CacheAfterFailure(users, req[t])
    /\ users_lock' = Release(users_lock)
    /\ Raise(t)
    /\ UNCHANGED <<client, gcid, groups, groups_lock, op, fetchCount, supVars, sessVars, extVars>>

\* ------------------------------------------------------------- get_group
\* Lines 335-351 from the point the lock is held: the second look at the cache,
\* then the request.
GroupCritical(t, c, lock) ==
    IF c \in groups
    THEN /\ pc' = [pc EXCEPT ![t] = "done"]
         /\ res' = [res EXCEPT ![t] = "ok"]
         /\ arg' = [arg EXCEPT ![t] = <<>>]
         /\ req' = [req EXCEPT ![t] = <<>>]
         /\ groups_lock' = Release(lock)
         /\ UNCHANGED lastFailed
    ELSE IF client
    THEN /\ pc' = [pc EXCEPT ![t] = "fetch"]
         /\ arg' = [arg EXCEPT ![t] = <<c>>]
         /\ res' = res
         /\ req' = [req EXCEPT ![t] = <<c>>]
         /\ groups_lock' = lock
         /\ lastFailed' = lastFailed \ {c}
    ELSE /\ Leave(t, "no_client")
         /\ groups_lock' = Release(lock)
         /\ UNCHANGED lastFailed

\* get_group called (lines 323-335): the first look at the cache is made before
\* the lock is touched.
CallGetGroup(t, c) ==
    /\ pc[t] = "idle"
    /\ op' = [op EXCEPT ![t] = "get_group"]
    /\ IF c \in groups
       THEN /\ pc' = [pc EXCEPT ![t] = "done"]
            /\ res' = [res EXCEPT ![t] = "ok"]
            /\ UNCHANGED <<arg, req, groups_lock, lastFailed, waited>>
       ELSE IF LockFree(groups_lock)
            THEN /\ GroupCritical(t, c, Take(groups_lock))
                 /\ UNCHANGED waited
            ELSE /\ pc' = [pc EXCEPT ![t] = "lock_wait"]
                 /\ arg' = [arg EXCEPT ![t] = <<c>>]
                 /\ groups_lock' = Enqueue(groups_lock, t)
                 /\ waited' = [waited EXCEPT ![t] = "queued"]
                 /\ UNCHANGED <<req, res, lastFailed>>
    /\ UNCHANGED <<client, gcid, users, groups, users_lock, fetchCount, clean, supVars, sessVars, extVars>>

ResumeGetGroup(t) ==
    /\ pc[t] = "lock_wait" /\ op[t] = "get_group"
    /\ CanResume(groups_lock, t)
    /\ GroupCritical(t, arg[t][1], Dequeue(groups_lock))
    /\ UNCHANGED <<client, gcid, users, groups, users_lock, op, fetchCount, clean,
                   waited, supVars, sessVars, extVars>>

\* proto_get_group answers (lines 342-351).
FetchGroupOk(t) ==
    /\ pc[t] = "fetch" /\ op[t] = "get_group"
    /\ groups' = groups \cup Range(req[t])
    /\ groups_lock' = Release(groups_lock)
    /\ pc' = [pc EXCEPT ![t] = "done"]
    /\ res' = [res EXCEPT ![t] = "ok"]
    /\ arg' = [arg EXCEPT ![t] = <<>>]
    /\ req' = [req EXCEPT ![t] = <<>>]
    /\ UNCHANGED <<client, gcid, users, users_lock, op, fetchCount, clean,
                   lastFailed, waited, supVars, sessVars, extVars>>

FetchGroupFail(t) ==
    /\ pc[t] = "fetch" /\ op[t] = "get_group"
    /\ groups' = CacheAfterFailure(groups, req[t])
    /\ groups_lock' = Release(groups_lock)
    /\ Raise(t)
    /\ UNCHANGED <<client, gcid, users, users_lock, op, fetchCount, supVars, sessVars, extVars>>

\* -------------------------------------------------------------- get_self
\* get_self (lines 290-306) takes no lock and reads no cache: the status
\* request when gcid is unset, then a get-members request for the own id.
\* With self.client None the first `self.client.` raises AttributeError.
CallGetSelf(t) ==
    /\ pc[t] = "idle"
    /\ op' = [op EXCEPT ![t] = "get_self"]
    /\ IF client
       THEN /\ pc' = [pc EXCEPT ![t] = IF gcid = NoId THEN "self_status"
                                                      ELSE "self_members"]
            /\ UNCHANGED <<arg, req, res>>
       ELSE Leave(t, "no_client")
    /\ UNCHANGED <<client, gcid, users, groups, users_lock, groups_lock,
                   fetchCount, clean, lastFailed, waited, supVars, sessVars, extVars>>

\* Lines 292-297: the status request returned; the id is stored and indexed.
SelfStatusOk(t) ==
    /\ pc[t] = "self_status"
    /\ gcid' = SelfId
    /\ by_gcid' = by_gcid \cup {gcid'}
    /\ IF client
       THEN /\ pc' = [pc EXCEPT ![t] = "self_members"]
            /\ UNCHANGED <<arg, req, res>>
       ELSE Leave(t, "no_client")
    /\ UNCHANGED <<client, users, groups, users_lock, groups_lock, op,
                   fetchCount, clean, lastFailed, waited, supVars, connected,
                   name_future, extVars>>

SelfMembersOk(t) ==
    /\ pc[t] = "self_members"
    /\ pc' = [pc EXCEPT ![t] = "done"]
    /\ res' = [res EXCEPT ![t] = "ok"]
    /\ UNCHANGED <<client, gcid, users, groups, users_lock, groups_lock, op, arg, req,
                   fetchCount, clean, lastFailed, waited, supVars, sessVars, extVars>>

SelfFail(t) ==
    /\ pc[t] \in {"self_status", "self_members"}
    /\ pc' = [pc EXCEPT ![t] = "done"]
    /\ res' = [res EXCEPT ![t] = "fetch_error"]
    /\ UNCHANGED <<client, gcid, users, groups, users_lock, groups_lock, op, arg, req,
                   fetchCount, clean, lastFailed, waited, supVars, sessVars, extVars>>

\* ------------------------------------------------------ supervisor loop
\* time.time() when the session is created: seconds since 1970, far above the
\* quiet period, so that 0 + 60 < time.time() at the first disconnect.
Epoch == 1000
\* backoff = 4 (line 231, line 251)
InitialBackoff == 4
\* backoff_reset_in_seconds = 60 (line 232)
backoff_reset_in_seconds == 60
\* Seconds a connect() call stays pending before it returns or raises.
ConnectDurations == {0, 18, 19, 61}
\* Seconds send_bridge_notice takes.
NoticeDurations == {0, 2}
\* Seconds asyncio.sleep(backoff) lasts beyond backoff.
Oversleep == {0, 1}

\* last_disconnection + backoff_reset_in_seconds < time.time() (line 250)
QuietPeriodNever(last, t) == FALSE
QuietPeriodElapsed(last, t) == last + backoff_reset_in_seconds < t

\* int(backoff * 1.5) (line 254): the product is exact, int() truncates.
NextBackoffDouble(b) == b * 2
NextBackoff(b) == (b * 3) \div 2

\* state_event after the reset branch (line 252).
ResetStateEventSticky(ev) == ev
ResetStateEvent(ev) == "TRANSIENT_DISCONNECT"

\* state_event after the growth branch (lines 255-256).
GrownStateEvent(ev, b) == IF b > 60 THEN "UNKNOWN_ERROR" ELSE ev

\* The time asyncio.sleep(b), called at time t, returns.
WakeTimeNoSleep(t, b, over) == t
WakeTime(t, b, over) == t + b + over

\* Lines 246-258: a connect() that did not end the loop, seen at time t. The
\* delay and the classification are computed and send_bridge_notice is awaited.
\* `last`, `b` and `ev` are the loop's last_disconnection, backoff and
\* state_event before the step.
OnDisconnectFrom(msg, t, last, b, ev) ==
    /\ error_msg' = msg
    /\ IF QuietPeriodElapsed(last, t)
       THEN /\ backoff' = InitialBackoff
            /\ state_event' = ResetStateEvent(ev)
       ELSE /\ backoff' = NextBackoff(b)
            /\ state_event' = GrownStateEvent(ev, backoff')
    /\ notice' = [state_event |-> state_event',
                  important |-> state_event' = "UNKNOWN_ERROR"]
    /\ status' = state_event'
    /\ lpc' = "notify"

OnDisconnect(msg, t) ==
    OnDisconnectFrom(msg, t, last_disconnection, backoff, state_event)

\* Line 237 at time t: await self.client.connect(). With self.client None the
\* attribute access raises at once and the except branch runs.
TryConnect(t) ==
    IF client
    THEN /\ lpc' = "connect"
         /\ UNCHANGED <<backoff, state_event, error_msg, notice, status>>
    ELSE OnDisconnect("exception", t)

\* login_complete (lines 208-214): the client is built and the start() task is
\* created; it has not run yet.  One supervisor loop is followed.
LoginComplete ==
    /\ lpc = "none"
    /\ client' = TRUE
    /\ lpc' = "created"
    /\ stopCalled' = FALSE
    /\ UNCHANGED <<gcid, cacheVars, sessVars, extVars, intentional, last_disconnection,
                   backoff, state_event, error_msg, notice, status, now, chan, spc, smode>>

\* The start() task runs up to its first suspension (lines 230-237).
StartLoop ==
    /\ lpc = "created"
    /\ last_disconnection' = 0
    /\ intentional' = FALSE
    /\ IF client
       THEN /\ lpc' = "connect"
            /\ backoff' = InitialBackoff
            /\ state_event' = "TRANSIENT_DISCONNECT"
            /\ UNCHANGED <<error_msg, notice, status>>
       ELSE OnDisconnectFrom("exception", now, 0, InitialBackoff, "TRANSIENT_DISCONNECT")
    /\ UNCHANGED <<client, gcid, cacheVars, sessVars, extVars, now, chan, spc, smode,
                   stopCalled>>

\* connect() returns after d seconds (lines 238-244).
ConnectReturns(d) ==
    /\ lpc = "connect"
    /\ now + d <= Epoch + MaxTime
    /\ now' = now + d
    /\ IF intentional
       THEN /\ lpc' = "returned"
            /\ UNCHANGED <<backoff, state_event, error_msg, notice, status>>
       ELSE OnDisconnect("finished", now')
    /\ chan' = "idle"
    /\ UNCHANGED <<client, gcid, cacheVars, sessVars, extVars, intentional,
                   last_disconnection, spc, smode, stopCalled>>

\* connect() raises after d seconds (lines 245-248).
ConnectRaises(d) ==
    /\ lpc = "connect"
    /\ now + d <= Epoch + MaxTime
    /\ now' = now + d
    /\ OnDisconnect("exception", now')
    /\ chan' = "idle"
    /\ UNCHANGED <<client, gcid, cacheVars, sessVars, extVars, intentional,
                   last_disconnection, spc, smode, stopCalled>>

\* send_bridge_notice returns after d seconds; the timestamp is taken and the
\* sleep begins (lines 257-261).
NoticeSent(d) ==
    /\ lpc = "notify"
    /\ now + d <= Epoch + MaxTime
    /\ now' = now + d
    /\ last_disconnection' = now'
    /\ lpc' = "sleep"
    /\ UNCHANGED <<client, gcid, cacheVars, sessVars, extVars, intentional, backoff,
                   state_event, error_msg, notice, status, chan, spc, smode, stopCalled>>

\* asyncio.sleep(backoff) returns and the loop calls connect() again
\* (lines 261, 235-237).
Wake(over) ==
    /\ lpc = "sleep"
    /\ WakeTime(now, backoff, over) <= Epoch + MaxTime
    /\ now' = WakeTime(now, backoff, over)
    /\ TryConnect(now')
    /\ UNCHANGED <<client, gcid, cacheVars, sessVars, extVars, intentional,
                   last_disconnection, chan, spc, smode, stopCalled>>

\* ------------------------------------------------------- stop and logout
\* logout after `await self.stop()` (lines 271-283).
LogoutRest ==
    /\ client' = FALSE
    /\ by_gcid' = by_gcid \ {gcid}
    /\ gcid' = NoId
    /\ connected' = FALSE
    /\ users' = {}
    /\ groups' = {}
    /\ name_future' = "pending"

\* stop() is called, directly or as the first step of logout() (lines 263-270):
\* the flag is set, then client.disconnect() is awaited.
CallStop(mode) ==
    /\ spc = "idle"
    /\ smode' = mode
    /\ IF client
       THEN /\ intentional' = TRUE
            /\ stopCalled' = TRUE
            /\ spc' = "disconnecting"
            /\ UNCHANGED <<client, gcid, users, groups, sessVars>>
       ELSE /\ spc' = "done"
            /\ UNCHANGED <<intentional, stopCalled>>
            /\ IF mode = "logout" THEN LogoutRest
                                  ELSE UNCHANGED <<client, gcid, users, groups, sessVars>>
    /\ UNCHANGED <<extVars, users_lock, groups_lock, pc, op, arg, req, res, fetchCount, clean,
                   lastFailed, waited, lpc, last_disconnection, backoff, state_event,
                   error_msg, notice, status, now, chan>>

\* client.disconnect() returns; logout() goes on to clear the session.
DisconnectReturns ==
    /\ spc = "disconnecting"
    /\ spc' = "done"
    /\ IF smode = "logout" THEN LogoutRest
                           ELSE UNCHANGED <<client, gcid, users, groups, sessVars>>
    /\ UNCHANGED <<extVars, users_lock, groups_lock, pc, op, arg, req, res, fetchCount, clean,
                   lastFailed, waited, intentional, lpc, last_disconnection, backoff,
                   state_event, error_msg, notice, status, now, chan, smode, stopCalled>>

\* ------------------------------------------------- a second start() task
\* login_complete (lines 208-214) has no test for a start() task that already
\* exists: called again, it builds a new client and creates another start()
\* task.  That task is followed by its position only (xpc); it shares
\* self.client and self._intentional_disconnect with the first one.
LoginCompleteAgain ==
    /\ lpc # "none"
    /\ xpc = "none"
    /\ client' = TRUE
    /\ xpc' = "created"
    /\ UNCHANGED <<gcid, cacheVars, supVars, sessVars, nonLoginVars>>

\* Position of a start() task once `await self.client.connect()` is reached
\* (line 237): pending, or in the except branch when self.client is None.
AtConnect(c) == IF c THEN "connect" ELSE "notify"

\* The second task runs up to its first suspension (lines 230-237).
StartExtra ==
    /\ xpc = "created"
    /\ intentional' = FALSE
    /\ xpc' = AtConnect(client)
    /\ UNCHANGED <<client, gcid, cacheVars, sessVars, nonLoginVars, lpc,
                   last_disconnection, backoff, state_event, error_msg, notice, status, now,
                   chan, spc, smode, stopCalled>>

\* Its connect() returns or raises (lines 238-258).
ExtraConnectEnds(raised) ==
    /\ xpc = "connect"
    /\ xpc' = IF ~raised /\ intentional THEN "returned" ELSE "notify"
    /\ UNCHANGED <<client, gcid, cacheVars, supVars, sessVars, nonLoginVars>>

\* Its send_bridge_notice returns and its sleep begins (lines 257-261).
ExtraNoticeSent ==
    /\ xpc = "notify"
    /\ xpc' = "sleep"
    /\ UNCHANGED <<client, gcid, cacheVars, supVars, sessVars, nonLoginVars>>

\* Its sleep returns and it calls connect() again (lines 261, 235-237).
ExtraWake ==
    /\ xpc = "sleep"
    /\ xpc' = AtConnect(client)
    /\ UNCHANGED <<client, gcid, cacheVars, supVars, sessVars, nonLoginVars>>

\* ------------------------------------------------------- stream events
\* An event as on_stream_event reads it (lines 432-453): evt.group_id, the
\* field of evt.body that is set, and evt.type.
NoConv == "none"
Bodies == {"message_posted", "message_reaction", "message_deleted",
           "read_receipt_changed", "group_viewed", "other"}
EventTypes == {"MESSAGE_UPDATED", "OTHER"}
\* MESSAGE_UPDATED is the type tag of a message-posted body only.
Events == {e \in [group_id : ConvIds \cup {NoConv}, body : Bodies, type : EventTypes] :
             e.type = "MESSAGE_UPDATED" => e.body = "message_posted"}

NoTask == [pc |-> "none", group_id |-> NoConv, body |-> "-", type |-> "-",
           handler |-> "-"]

\* `if not evt.group_id` (line 433)
HasGroupAlways(g) == TRUE
HasGroup(g) == g # NoConv

\* The if/elif chain of lines 438-453: the portal method that is awaited,
\* "none" in the else branch.
DispatchNoEdit(body, type) ==
    IF body = "message_posted" THEN "handle_googlechat_message"
    ELSE IF body = "message_reaction" THEN "handle_googlechat_reaction"
    ELSE IF body = "message_deleted" THEN "handle_googlechat_redaction"
    ELSE IF body = "read_receipt_changed" THEN "handle_googlechat_read_receipts"
    ELSE IF body = "group_viewed" THEN "mark_read"
    ELSE "none"
Dispatch(body, type) ==
    IF body = "message_posted"
    THEN IF type = "MESSAGE_UPDATED" THEN "handle_googlechat_edit"
                                     ELSE "handle_googlechat_message"
    ELSE IF body = "message_reaction" THEN "handle_googlechat_reaction"
    ELSE IF body = "message_deleted" THEN "handle_googlechat_redaction"
    ELSE IF body = "read_receipt_changed" THEN "handle_googlechat_read_receipts"
    ELSE IF body = "group_viewed" THEN "mark_read"
    ELSE "none"

\* proxy (lines 224-225): the task the observer awaits before it returns to
\* the stream; create_task awaits none.
AwaitedByProxySelf(i) == i
AwaitedByProxy(i) == 0

\* `except Exception` in try_proxy (lines 221-222): does an exception of the
\* handler leave the task?
EscapesTryProxy(raised) == FALSE

\* The stream calls the observer for its next event, once the observer has
\* returned for the one before.  proxy creates the task; it has not run yet.
Observe(e) ==
    /\ delivered < MaxEvents
    /\ streamWaits = 0 /\ ~streamError
    /\ delivered' = delivered + 1
    /\ h' = [h EXCEPT ![delivered'] = [pc |-> "created", group_id |-> e.group_id,
                                      body |-> e.body, type |-> e.type,
                                      handler |-> "-"]]
    /\ streamWaits' = AwaitedByProxy(delivered')
    /\ UNCHANGED <<client, gcid, cacheVars, supVars, sessVars, nonEvVars, lookups,
                   dispatchLog, streamError>>

\* A task ends: a stream that waited for it goes on.
StreamAfter(i) == IF streamWaits = i THEN 0 ELSE streamWaits

\* The try_proxy task of event i starts; the event loop runs tasks in the
\* order of their creation.  on_stream_event runs to `await
\* po.Portal.get_by_gcid` (line 436) or returns at line 434.
RunHandler(i) ==
    /\ h[i].pc = "created"
    /\ \A j \in 1..(i - 1) : h[j].pc # "created"
    /\ IF HasGroup(h[i].group_id)
       THEN /\ h' = [h EXCEPT ![i].pc = "lookup"]
            /\ lookups' = lookups \cup {i}
            /\ UNCHANGED streamWaits
       ELSE /\ h' = [h EXCEPT ![i].pc = "done", ![i].body = "-", ![i].type = "-"]
            /\ streamWaits' = StreamAfter(i)
            /\ UNCHANGED lookups
    /\ UNCHANGED <<client, gcid, cacheVars, supVars, sessVars, nonEvVars, delivered,
                   dispatchLog, streamError>>

\* Portal.get_by_gcid returns to the task of event i: the portal method chosen
\* by lines 438-451 is called and awaited, or line 453 logs and the task ends.
LookupReturns(i) ==
    /\ h[i].pc = "lookup"
    /\ LET m == Dispatch(h[i].body, h[i].type)
       IN IF m = "none"
          THEN /\ h' = [h EXCEPT ![i].pc = "done", ![i].body = "-", ![i].type = "-"]
               /\ streamWaits' = StreamAfter(i)
               /\ UNCHANGED dispatchLog
          ELSE /\ h' = [h EXCEPT ![i].pc = "handler", ![i].body = "-",
                                 ![i].type = "-", ![i].handler = m]
               /\ dispatchLog' = Append(dispatchLog, i)
               /\ UNCHANGED streamWaits
    /\ UNCHANGED <<client, gcid, cacheVars, supVars, sessVars, nonEvVars, delivered,
                   lookups, streamError>>

\* The portal method returns.
HandlerReturns(i) ==
    /\ h[i].pc = "handler"
    /\ h' = [h EXCEPT ![i].pc = "done", ![i].handler = "-"]
    /\ streamWaits' = StreamAfter(i)
    /\ UNCHANGED <<client, gcid, cacheVars, supVars, sessVars, nonEvVars, delivered,
                   lookups, dispatchLog, streamError>>

\* The portal method raises: try_proxy logs the exception (lines 221-222).
HandlerRaises(i) ==
    /\ h[i].pc = "handler"
    /\ h' = [h EXCEPT ![i].pc = "logged", ![i].handler = "-"]
    /\ streamError' = (streamError \/ (streamWaits = i /\ EscapesTryProxy(TRUE)))
    /\ streamWaits' = StreamAfter(i)
    /\ UNCHANGED <<client, gcid, cacheVars, supVars, sessVars, nonEvVars, delivered,
                   lookups, dispatchLog>>

\* ---------------------------------------------- on_connect, on_connect_later
\* on_connect (lines 285-288), fired by the client once for a connect() call
\* that got through: the flag is set and the on_connect_later task is created.
on_connect ==
    /\ lpc = "connect" /\ chan = "idle"
    /\ epc = "idle"
    /\ nconn < MaxConnects
    /\ chan' = "up"
    /\ connected' = TRUE
    /\ nconn' = nconn + 1
    /\ ocl' = [ocl EXCEPT ![nconn'] = "created"]
    /\ UNCHANGED <<client, gcid, cacheVars, by_gcid, name_future, nonConnVars, epc,
                   intentional, lpc, last_disconnection, backoff, state_event,
                   error_msg, notice, status, now, spc, smode, stopCalled>>

\* `except Exception: ... return` (lines 356-358): where on_connect_later is
\* after a failed get_self.
AfterGetSelfFailureGoesOn == "backfilling"
AfterGetSelfFailure == "aborted"

\* get_self up to its next request (lines 291-300) with gcid g and client c;
\* the attribute access on a None client raises inside the try of line 354.
GetSelfRequest(g, c) ==
    IF ~c THEN AfterGetSelfFailure
    ELSE IF g = NoId THEN "self_status" ELSE "self_members"

\* self.name_future.set_result (line 363) raises InvalidStateError when the
\* future is done; nothing in on_connect_later catches it.
SetResultAlwaysWorks(f) == "save"
SetResult(f) == IF f = "pending" THEN "save" ELSE "died"

postVars == <<client, cacheVars, nonConnVars, loopVars, connected, nconn, epc>>

\* The task starts and calls get_self (lines 354-355).
RunPostConnect(k) ==
    /\ ocl[k] = "created"
    /\ ocl' = [ocl EXCEPT ![k] = GetSelfRequest(gcid, client)]
    /\ UNCHANGED <<postVars, gcid, by_gcid, name_future, status>>

\* The status request returns: the id is stored and indexed (lines 296-297).
PostSelfStatusOk(k) ==
    /\ ocl[k] = "self_status"
    /\ gcid' = SelfId
    /\ by_gcid' = by_gcid \cup {gcid'}
    /\ ocl' = [ocl EXCEPT ![k] = GetSelfRequest(gcid', client)]
    /\ UNCHANGED <<postVars, name_future, status>>

\* The get-members request returns and get_self with it; BACKFILLING is being
\* pushed (lines 299-359).
PostSelfMembersOk(k) ==
    /\ ocl[k] = "self_members"
    /\ ocl' = [ocl EXCEPT ![k] = "backfilling"]
    /\ status' = "BACKFILLING"
    /\ UNCHANGED <<postVars, gcid, by_gcid, name_future>>

\* One of the two requests of get_self raises (lines 356-358).
PostSelfFail(k) ==
    /\ ocl[k] \in {"self_status", "self_members"}
    /\ ocl' = [ocl EXCEPT ![k] = AfterGetSelfFailure]
    /\ UNCHANGED <<postVars, gcid, by_gcid, name_future, status>>

\* The push returned: the name is set, the future resolved and save() is
\* awaited (lines 361-367).
ResolveName(k) ==
    /\ ocl[k] = "backfilling"
    /\ ocl' = [ocl EXCEPT ![k] = SetResult(name_future)]
    /\ name_future' = IF name_future = "pending" THEN "resolved" ELSE name_future
    /\ UNCHANGED <<postVars, gcid, by_gcid, status>>

\* save() returned; the custom puppet step begins (lines 367-370).
Saved(k) ==
    /\ ocl[k] = "save"
    /\ ocl' = [ocl EXCEPT ![k] = "puppet"]
    /\ UNCHANGED <<postVars, gcid, by_gcid, name_future, status>>

\* The custom puppet step ends, well or with a logged exception; sync()
\* is awaited (lines 369-377).
PuppetStep(k, ok) ==
    /\ ocl[k] = "puppet"
    /\ ocl' = [ocl EXCEPT ![k] = "sync"]
    /\ UNCHANGED <<postVars, gcid, by_gcid, name_future, status>>

\* sync() ends, well or with a logged exception; CONNECTED is being pushed
\* (lines 376-381).
SyncStep(k, ok) ==
    /\ ocl[k] = "sync"
    /\ ocl' = [ocl EXCEPT ![k] = "pushing"]
    /\ UNCHANGED <<postVars, gcid, by_gcid, name_future, status>>

\* push_bridge_state(CONNECTED) returned (line 381).
ConnectedPushed(k) ==
    /\ ocl[k] = "pushing"
    /\ ocl' = [ocl EXCEPT ![k] = "done"]
    /\ status' = "CONNECTED"
    /\ UNCHANGED <<postVars, gcid, by_gcid, name_future>>

\* ------------------------------------------- on_disconnect, on_reconnect
\* What on_disconnect and on_reconnect leave alone.  The client awaits one
\* observer at a time.
handlerVars == <<client, gcid, cacheVars, by_gcid, name_future, nonConnVars, ocl,
                 nconn, intentional, lpc, last_disconnection, backoff, state_event,
                 error_msg, notice, now, spc, smode, stopCalled>>

\* on_disconnect (lines 389-393), fired by the client when the channel of the
\* pending connect() drops: the flag is cleared, then the notice is awaited.
on_disconnect ==
    /\ lpc = "connect" /\ chan = "up"
    /\ epc = "idle"
    /\ chan' = "down"
    /\ connected' = FALSE
    /\ epc' = "on_disconnect"
    /\ UNCHANGED <<handlerVars, status>>

\* on_reconnect (lines 384-387), fired when the channel is back: the flag is
\* set, then the notice is awaited.
on_reconnect ==
    /\ lpc = "connect" /\ chan = "down"
    /\ epc = "idle"
    /\ chan' = "up"
    /\ connected' = TRUE
    /\ epc' = "on_reconnect"
    /\ UNCHANGED <<handlerVars, status>>

\* The bridge state an observer pushes last (lines 387, 391).
PushedBy(observer) ==
    IF observer = "on_reconnect" THEN "CONNECTED" ELSE "TRANSIENT_DISCONNECT"

\* The notice of the awaited observer was sent; it pushes its bridge state
\* and returns.
ObserverPushes ==
    /\ epc # "idle"
    /\ status' = PushedBy(epc)
    /\ epc' = "idle"
    /\ UNCHANGED <<handlerVars, chan, connected>>

\* ------------------------------------------------------------------ sync
\* sync (lines 395-421).  A world item is [conv, ts]: its group id and its
\* sort_timestamp.
SyncConvs == 1..MaxItems
Stamps == 1..MaxItems
WorldLists ==
    UNION {{[i \in 1..n |-> [conv |-> i, ts |-> f[i]]] : f \in [1..n -> Stamps]} :
           n \in 0..MaxItems}

\* items.sort(key=sort_timestamp, reverse=True) (line 406): descending, and
\* stable: items with equal timestamps keep the order they arrived in.
RECURSIVE InsertDesc(_, _)
InsertDesc(x, s) ==
    IF s = <<>> THEN <<x>>
    ELSE IF Head(s).ts >= x.ts THEN <<Head(s)>> \o InsertDesc(x, Tail(s))
    ELSE <<x>> \o s

RECURSIVE SortDesc(_)
SortDesc(s) ==
    IF s = <<>> THEN <<>>
    ELSE InsertDesc(s[Len(s)], SortDesc(SubSeq(s, 1, Len(s) - 1)))

\* `elif index < max_sync` (line 419); index counts from 0 over all items.
ShouldCreateInclusive(i, n) == i <= n
ShouldCreate(i, n) == i < n

\* The world request returned: the list is sorted and the loop begins
\* (lines 398-408).
SyncStart ==
    /\ syncpc = "fetch"
    /\ items' = SortDesc(world)
    /\ index' = 0
    /\ syncpc' = "loop"
    /\ UNCHANGED <<client, gcid, cacheVars, supVars, sessVars, nonSyncVars, world,
                   max_sync, mirror0, mirror, created, updated, visited>>

\* One turn of the loop (lines 408-420): the portal is looked up and updated,
\* created or left alone.
SyncItem ==
    /\ syncpc = "loop"
    /\ index < Len(items)
    /\ LET item == items[index + 1]
       IN /\ visited' = Append(visited, item)
          /\ IF item.conv \in mirror
             THEN /\ updated' = Append(updated, item.conv)
                  /\ UNCHANGED <<created, mirror>>
             ELSE IF ShouldCreate(index, max_sync)
             THEN /\ created' = Append(created, item.conv)
                  /\ mirror' = mirror \cup {item.conv}
                  /\ UNCHANGED updated
             ELSE UNCHANGED <<created, updated, mirror>>
    /\ index' = index + 1
    /\ UNCHANGED <<client, gcid, cacheVars, supVars, sessVars, nonSyncVars, world,
                   max_sync, mirror0, items, syncpc>>

\* The loop is over; update_direct_chats is awaited and sync returns (line 421).
SyncEnd ==
    /\ syncpc = "loop"
    /\ index = Len(items)
    /\ syncpc' = "done"
    /\ UNCHANGED <<client, gcid, cacheVars, supVars, sessVars, nonSyncVars, world,
                   max_sync, mirror0, mirror, items, index, created, updated, visited>>

\* No sync() is running.
SyncIdle ==
    /\ world = <<>> /\ max_sync = 0
    /\ mirror0 = {} /\ mirror = {}
    /\ items = <<>> /\ index = 0
    /\ created = <<>> /\ updated = <<>> /\ visited = <<>>
    /\ syncpc = "none"

\* ------------------------------------------------------------------ Init
\* User.__init__ (lines 66-82); gcid comes from the stored account record.
InitFields ==
    /\ users_lock = NewLock /\ groups_lock = NewLock
    /\ intentional = FALSE
    /\ pc = [t \in Tasks |-> "idle"]
    /\ op = [t \in Tasks |-> "none"]
    /\ arg = [t \in Tasks |-> <<>>]
    /\ req = [t \in Tasks |-> <<>>]
    /\ res = [t \in Tasks |-> "none"]
    /\ clean = TRUE
    /\ lastFailed = {}
    /\ waited = [t \in Tasks |-> "no"]
    /\ lpc = "none"
    /\ last_disconnection = 0
    /\ backoff = InitialBackoff
    /\ state_event = "TRANSIENT_DISCONNECT"
    /\ error_msg = "none"
    /\ notice = [state_event |-> "none", important |-> FALSE]
    /\ status = "none"
    /\ now = Epoch
    /\ chan = "idle"
    /\ spc = "idle" /\ smode = "none"
    /\ stopCalled = FALSE
    /\ connected = FALSE
    /\ name_future = "pending"
    /\ xpc = "none"
    /\ h = [i \in EventIdx |-> NoTask]
    /\ delivered = 0
    /\ lookups = {}
    /\ dispatchLog = <<>>
    /\ streamWaits = 0
    /\ streamError = FALSE
    /\ ocl = [k \in ConnIdx |-> "none"]
    /\ nconn = 0
    /\ epc = "idle"

\* A logged-in session whose client is connected: the state the entity cache
\* is called in.  Earlier calls, all returned, may have filled part of the
\* cache, each entry by one request.
InitCache ==
    /\ InitFields
    /\ SyncIdle
    /\ client = TRUE
    /\ gcid \in {NoId, SelfId}
    /\ users \in {{}, {"u1"}}
    /\ groups \in {{}, {"c1"}}
    /\ fetchCount = [u \in UserIds |-> IF u \in users THEN 1 ELSE 0]
    /\ by_gcid = IF gcid = NoId THEN {} ELSE {gcid}

NextCache ==
    \/ \E t \in Tasks, l \in IdLists : CallGetUsers(t, l)
    \/ \E t \in Tasks : ResumeGetUsers(t)
    \/ \E t \in Tasks, got \in SUBSET UserIds : FetchMembersOk(t, got)
    \/ \E t \in Tasks : FetchMembersFail(t)
    \/ \E t \in Tasks, c \in ConvIds : CallGetGroup(t, c)
    \/ \E t \in Tasks : ResumeGetGroup(t)
    \/ \E t \in Tasks : FetchGroupOk(t)
    \/ \E t \in Tasks : FetchGroupFail(t)
    \/ \E t \in Tasks : CallGetSelf(t)
    \/ \E t \in Tasks : SelfStatusOk(t)
    \/ \E t \in Tasks : SelfMembersOk(t)
    \/ \E t \in Tasks : SelfFail(t)

SpecCache == InitCache /\ [][NextCache]_vars

\* The session as constructed, before login: no client, no supervisor loop.
InitSup ==
    /\ InitFields
    /\ SyncIdle
    /\ client = FALSE
    /\ gcid = NoId
    /\ users = {} /\ groups = {}
    /\ fetchCount = [u \in UserIds |-> 0]
    /\ by_gcid = {}

NextSup ==
    \/ LoginComplete
    \/ StartLoop
    \/ \E d \in ConnectDurations : ConnectReturns(d)
    \/ \E d \in ConnectDurations : ConnectRaises(d)
    \/ \E d \in NoticeDurations : NoticeSent(d)
    \/ \E over \in Oversleep : Wake(over)
    \/ \E mode \in {"stop", "logout"} : CallStop(mode)
    \/ DisconnectReturns

SpecSup == InitSup /\ [][NextSup]_vars

\* Login, and login again while the first supervisor loop exists.
NextLogin ==
    \/ LoginComplete
    \/ LoginCompleteAgain
    \/ StartLoop
    \/ StartExtra
    \/ \E d \in ConnectDurations : ConnectReturns(d)
    \/ \E d \in ConnectDurations : ConnectRaises(d)
    \/ \E d \in NoticeDurations : NoticeSent(d)
    \/ \E over \in Oversleep : Wake(over)
    \/ \E raised \in BOOLEAN : ExtraConnectEnds(raised)
    \/ ExtraNoticeSent
    \/ ExtraWake

SpecLogin == InitSup /\ [][NextLogin]_vars

\* A logged-in, connected session that receives stream events.
InitEvents ==
    /\ InitCache
    /\ gcid = SelfId /\ users = {} /\ groups = {}

NextEvents ==
    \/ \E e \in Events : Observe(e)
    \/ \E i \in EventIdx : RunHandler(i)
    \/ \E i \in EventIdx : LookupReturns(i)
    \/ \E i \in EventIdx : HandlerReturns(i)
    \/ \E i \in EventIdx : HandlerRaises(i)

SpecEvents == InitEvents /\ [][NextEvents]_vars

\* Login, the supervisor loop and what follows each connect.  The time spent
\* in connect() and in send_bridge_notice is not followed here.
NextConnect ==
    \/ LoginComplete
    \/ StartLoop
    \/ ConnectReturns(0)
    \/ ConnectRaises(0)
    \/ NoticeSent(0)
    \/ Wake(0)
    \/ on_connect
    \/ on_disconnect
    \/ on_reconnect
    \/ ObserverPushes
    \/ \E k \in ConnIdx : RunPostConnect(k)
    \/ \E k \in ConnIdx : PostSelfStatusOk(k)
    \/ \E k \in ConnIdx : PostSelfMembersOk(k)
    \/ \E k \in ConnIdx : PostSelfFail(k)
    \/ \E k \in ConnIdx : ResolveName(k)
    \/ \E k \in ConnIdx : Saved(k)
    \/ \E k \in ConnIdx, ok \in BOOLEAN : PuppetStep(k, ok)
    \/ \E k \in ConnIdx, ok \in BOOLEAN : SyncStep(k, ok)
    \/ \E k \in ConnIdx : ConnectedPushed(k)

SpecConnect == InitSup /\ [][NextConnect]_vars

\* sync() has sent its world request, in a connected session: any list, any
\* limit, any set of conversations that have a room already.
InitSync ==
    /\ InitFields
    /\ client = TRUE
    /\ gcid = SelfId /\ by_gcid = {SelfId}
    /\ users = {} /\ groups = {}
    /\ fetchCount = [u \in UserIds |-> 0]
    /\ world \in WorldLists
    /\ max_sync \in 0..MaxItems
    /\ mirror0 \in SUBSET SyncConvs
    /\ mirror = mirror0
    /\ items = <<>> /\ index = 0
    /\ created = <<>> /\ updated = <<>> /\ visited = <<>>
    /\ syncpc = "fetch"

NextSync ==
    \/ SyncStart
    \/ SyncItem
    \/ SyncEnd

SpecSync == InitSync /\ [][NextSync]_vars

\* The entity cache and get_self of a session, and one logout().
NextSession ==
    \/ NextCache
    \/ CallStop("logout")
    \/ DisconnectReturns

\* A session just logged in: get_self has not run, the caches are empty.
InitSession ==
    /\ InitCache
    /\ gcid = NoId /\ users = {} /\ groups = {}

SpecSession == InitSession /\ [][NextSession]_vars

\* =================================================== entity cache properties
\* Callers with a get-members request in flight, by who sent it.
UsersFetching == {t \in Tasks : pc[t] = "fetch" /\ op[t] = "get_users"}
GroupFetching == {t \in Tasks : pc[t] = "fetch" /\ op[t] = "get_group"}
SelfMembersPending == {t \in Tasks : pc[t] = "self_members"}
CacheOf(o) == IF o = "get_users" THEN users ELSE groups
LockOf(o) == IF o = "get_users" THEN users_lock ELSE groups_lock

\* C1: as long as every fetch succeeded and returned every requested member,
\* no user id has been named in more than one remote get_users request,
\* however the get_users calls with overlapping id lists interleave.
C1_NoDuplicateFetch == clean => \A u \in UserIds : fetchCount[u] <= 1

\* Two get_users calls for u1 overlapped in time (one queued behind the other),
\* both returned u1, and u1 was requested from the remote once.
C1_Witness ==
    \E t, w \in Tasks :
        /\ t # w /\ clean
        /\ pc[t] = "done" /\ op[t] = "get_users" /\ res[t] = "ok" /\ waited[t] = "no"
        /\ pc[w] = "done" /\ op[w] = "get_users" /\ res[w] = "ok" /\ waited[w] = "queued"
        /\ users = {"u1"} /\ fetchCount["u1"] = 1

\* C2 as stated: under any interleaving of get_users, get_group and get_self no
\* two get-members requests are pending at once, and no two group requests.
C2_OneFetchPerCategoryIncludingSelf ==
    /\ Cardinality(UsersFetching \cup SelfMembersPending) <= 1
    /\ Cardinality(GroupFetching) <= 1

\* C2 (amended): at most one fetch sent by get_users and at most one sent by
\* get_group is in flight, and it is in flight under the category lock; the
\* get-members request of get_self is outside this guarantee.
C2_OneCacheFetchPerCategory ==
    /\ Cardinality(UsersFetching) <= 1
    /\ Cardinality(GroupFetching) <= 1
    /\ UsersFetching # {} => users_lock.locked
    /\ GroupFetching # {} => groups_lock.locked

\* A get_users fetch is in flight while get_self's get-members request is pending.
C2_Witness ==
    \E t, w \in Tasks : t \in UsersFetching /\ w \in SelfMembersPending

\* C3: a get_users call whose ids are all cached, or a get_group call for a
\* cached conversation, returns at once: it sends no request and is not queued
\* behind the holder of the category lock.
C3_CachedCallReturnsAtOnce ==
    [][\A t \in Tasks :
         (pc[t] = "idle" /\ pc'[t] # "idle")
            => /\ \A l \in IdLists :
                    (Range(l) \subseteq users /\ CallGetUsers(t, l))
                        => (pc'[t] = "done" /\ res'[t] = "ok")
               /\ \A c \in ConvIds :
                    (c \in groups /\ CallGetGroup(t, c))
                        => (pc'[t] = "done" /\ res'[t] = "ok")]_vars

\* C4: a failed fetch of get_users or get_group adds nothing to either cache
\* and leaves the category lock unlocked; the ids of a failed fetch stay out of
\* the cache, and the next call that names one of them and gets the lock sends
\* a new request that names it.
C4_FailedFetchIsRetried ==
    [][/\ lastFailed' \cap (users' \cup groups') = {}
       /\ \A t \in Tasks :
            /\ (pc[t] = "fetch" /\ res'[t] = "fetch_error")
                   => /\ users' = users /\ groups' = groups
                      /\ ~LockOf(op[t])'.locked
            /\ (pc[t] \in {"idle", "lock_wait"} /\ pc'[t] \in {"fetch", "done"}
                    /\ lastFailed # {})
                   => /\ \A l \in IdLists :
                           (/\ Range(l) \cap lastFailed # {}
                            /\ CallGetUsers(t, l) \/ (ResumeGetUsers(t) /\ l = arg[t]))
                               => (pc'[t] = "fetch"
                                   /\ Range(l) \cap lastFailed \subseteq Range(req'[t]))
                      /\ \A c \in ConvIds :
                           (/\ c \in lastFailed
                            /\ CallGetGroup(t, c) \/ (ResumeGetGroup(t) /\ <<c>> = arg[t]))
                               => (pc'[t] = "fetch" /\ req'[t] = <<c>>)]_vars

\* One caller's fetch failed, and another call has since sent a new request for
\* every id of the failed one (both caches still empty).
C4_Witness ==
    \E t, w \in Tasks :
        /\ t # w /\ op[t] = op[w] /\ op[t] \in {"get_users", "get_group"}
        /\ pc[t] = "done" /\ res[t] = "fetch_error"
        /\ pc[w] = "fetch"
        /\ lastFailed = {} /\ users = {} /\ groups = {}

\* C5 as stated: a caller that named one of the failed ids and was blocked
\* while the failing fetch was in flight ends with that failure.
C5_WaitersReceiveFailure ==
    \A w \in Tasks : (waited[w] = "saw_fail" /\ pc[w] = "done") => res[w] = "fetch_error"

\* C5 (amended): the failure is raised only in the caller that sent the fetch.
\* The callers queued on the lock are left as they are; a caller gets a fetch
\* failure only from a request of its own; and a queued caller that saw the
\* failure sends its own request when it gets the lock with an id still missing.
C5_FailureOnlyToIssuer ==
    [][\A t \in Tasks :
         /\ (pc[t] = "fetch" /\ res'[t] = "fetch_error")
                => \A w \in Tasks \ {t} : pc'[w] = pc[w] /\ res'[w] = res[w]
         /\ (res[t] # "fetch_error" /\ res'[t] = "fetch_error")
                => pc[t] \in {"fetch", "self_status", "self_members"}
         /\ (waited[t] = "saw_fail" /\ pc[t] = "lock_wait" /\ pc'[t] # "lock_wait"
                 /\ ~(Range(arg[t]) \subseteq CacheOf(op[t])))
                => pc'[t] = "fetch"]_vars

\* A caller that was queued while a fetch of one of its ids failed returned its
\* result all the same.
C5_Witness ==
    \E w \in Tasks : waited[w] = "saw_fail" /\ pc[w] = "done" /\ res[w] = "ok"

\* ===================================================== supervisor properties
\* The loop handles a disconnect in this step: connect() returned without the
\* flag set, or raised, and the notice for it is being sent.
DisconnectStep == lpc # "notify" /\ lpc' = "notify"

\* C6: the first disconnect of the loop uses delay 4; a disconnect seen no more
\* than 60 seconds after the recorded time of the previous one uses
\* trunc(1.5 * previous delay), which is not smaller; a disconnect seen more than
\* 60 seconds after it uses delay 4 again.  The delays are 4, 6, 9, 13, ...
C6_BackoffSchedule ==
    [][DisconnectStep =>
         /\ last_disconnection = 0 => backoff' = 4
         /\ (last_disconnection # 0 /\ now' - last_disconnection <= 60)
                => (2 * backoff' <= 3 * backoff /\ 3 * backoff < 2 * backoff' + 2
                    /\ backoff' >= backoff)
         /\ (last_disconnection # 0 /\ now' - last_disconnection > 60)
                => backoff' = 4
         /\ backoff' \in {4, 6, 9, 13, 19, 28, 42, 63}]_vars

\* Third disconnect in a row within the quiet period: the delay has gone 4, 6, 9.
C6_Witness ==
    lpc = "notify" /\ backoff = 9 /\ now - last_disconnection <= 60

\* C7: the delay the loop sleeps never exceeds a fixed bound (63: a sleep of
\* more than 60 seconds carries the next disconnect past the quiet period).
C7_BackoffCapped == lpc = "sleep" => backoff <= 63

\* The loop sleeps the largest delay.
C7_Witness == lpc = "sleep" /\ backoff = 63

\* C8: the notice of a disconnect is UNKNOWN_ERROR and important exactly when
\* the delay computed for that disconnect exceeds 60, TRANSIENT_DISCONNECT and
\* not important otherwise; after either the loop sleeps and calls connect()
\* again.
C8_Classification ==
    [][/\ DisconnectStep =>
            /\ notice'.state_event =
                   IF backoff' > 60 THEN "UNKNOWN_ERROR" ELSE "TRANSIENT_DISCONNECT"
            /\ notice'.important = (backoff' > 60)
       /\ (lpc = "notify" /\ lpc' # "notify") => lpc' = "sleep"
       /\ (lpc = "sleep" /\ lpc' # "sleep")
            => (lpc' = "connect" \/ (~client /\ DisconnectStep))]_vars

\* A disconnect with delay 63 was notified as UNKNOWN_ERROR and important, and
\* the loop went on to its sleep.
C8_Witness ==
    /\ lpc = "sleep" /\ backoff > 60
    /\ notice.state_event = "UNKNOWN_ERROR" /\ notice.important

\* C9: a connect() that returns after stop() was called ends the loop with no
\* notice, sleep or further connect(); any other return, or a raise, is followed
\* by one notice, one sleep of the current delay and one further connect().
C9_StopEndsLoopElseOneRetry ==
    [][/\ (lpc = "connect" /\ stopCalled /\ \E d \in ConnectDurations : ConnectReturns(d))
            => lpc' = "returned"
       /\ (lpc = "connect" /\ lpc' # "connect" /\ lpc' # "returned") => lpc' = "notify"
       /\ (lpc = "notify" /\ lpc' # "notify") => lpc' = "sleep"
       /\ (lpc = "sleep" /\ lpc' # "sleep")
            => (now' >= now + backoff /\ (lpc' = "connect" \/ ~client))
       /\ lpc = "returned" => lpc' = "returned"]_vars

\* C10: in a session whose stop() has set the flag since the loop task was
\* created, the flag is set whenever the loop is inside connect(), that is,
\* whenever it will next examine the flag.
C10_FlagSurvivesUntilExamined ==
    (stopCalled /\ lpc = "connect") => intentional

\* C22: the disconnect that follows a cycle whose delay exceeded 60, or whose
\* notice was classified UNKNOWN_ERROR, is a reset: its delay is 4 and its
\* notice is TRANSIENT_DISCONNECT and not important.  last_disconnection is
\* taken before the sleep, so the sleep alone outlasts the quiet period.
C22_UnknownErrorThenReset ==
    [][(DisconnectStep /\ (backoff > 60 \/ notice.state_event = "UNKNOWN_ERROR"))
          => /\ backoff' = InitialBackoff
             /\ state_event' = "TRANSIENT_DISCONNECT"
             /\ notice'.state_event = "TRANSIENT_DISCONNECT"
             /\ ~notice'.important]_vars

\* The disconnect after the sleep of 63 seconds: with the connect() durations
\* of the model a gap of 63 or 64 seconds since last_disconnection is that
\* sleep followed by a connect() that ended at once.
C22_Witness ==
    /\ lpc = "notify"
    /\ now - last_disconnection \in {63, 64}
    /\ backoff = InitialBackoff
    /\ notice.state_event = "TRANSIENT_DISCONNECT"

\* ======================================================== login properties
\* start() tasks that entered the loop and have not returned, and connect()
\* calls that are pending.
Running(l) == l \in {"connect", "notify", "sleep"}
LoopCount == (IF Running(lpc) THEN 1 ELSE 0) + (IF Running(xpc) THEN 1 ELSE 0)
PendingConnects ==
    (IF lpc = "connect" THEN 1 ELSE 0) + (IF xpc = "connect" THEN 1 ELSE 0)

\* C11: start() is idempotent: however often login_complete or start() is
\* invoked, at most one supervisor loop and at most one pending connect()
\* exist for the session.
C11_AtMostOneLoop == LoopCount <= 1 /\ PendingConnects <= 1

\* ================================================= stream event properties
Dispatched == Range(dispatchLog)
Recognized == Bodies \ {"other"}

\* C12: events of one conversation are dispatched in stream order: of two
\* events with the same group id, the portal method of the earlier one is
\* called before that of the later one.
C12_DispatchInStreamOrder ==
    \A p, q \in 1..Len(dispatchLog) :
        (p < q /\ h[dispatchLog[p]].group_id = h[dispatchLog[q]].group_id)
            => dispatchLog[p] < dispatchLog[q]

\* C13: the observer never blocks the stream: it returns without waiting for
\* the task it created, no exception of a handler reaches the stream, and the
\* stream can hand over its next event whatever the earlier tasks are doing
\* (pending for ever, or ended by an exception).
C13_ObserverNeverBlocks ==
    /\ streamWaits = 0
    /\ ~streamError
    /\ delivered < MaxEvents => ENABLED (\E e \in Events : Observe(e))
    /\ \A i \in EventIdx :
          (h[i].pc = "created" /\ \A j \in 1..(i - 1) : h[j].pc # "created")
              => ENABLED RunHandler(i)

\* The first handler is still pending when the second, started after it, has
\* raised.
C13_Witness ==
    /\ delivered = 2
    /\ h[1].pc = "handler"
    /\ h[2].pc = "logged"

\* C14: an event without a group id ends its task with no portal look-up and
\* no portal method called; an event whose body has none of the five known
\* fields ends its task, after the look-up, with no portal method called and
\* no exception.
C14_IgnoredEvents ==
    [][\A i \in EventIdx :
          /\ (h[i].pc = "created" /\ h'[i].pc # "created" /\ h[i].group_id = NoConv)
                => (h'[i].pc = "done" /\ lookups' = lookups
                    /\ dispatchLog' = dispatchLog)
          /\ (h[i].pc = "lookup" /\ h'[i].pc # "lookup" /\ h[i].body = "other")
                => (h'[i].pc = "done" /\ dispatchLog' = dispatchLog /\ ~streamError')
          /\ h'[i].group_id = NoConv
                => (i \notin lookups' /\ i \notin Range(dispatchLog'))]_vars

\* Event 1 had no group id, event 2 an unknown body: both tasks have ended.
C14_Witness ==
    /\ h[1].pc = "done" /\ h[1].group_id = NoConv
    /\ h[2].pc = "done" /\ 2 \in lookups /\ 2 \notin Dispatched

\* The portal method the claim names for each body.
ExpectedHandler(body, type) ==
    CASE body = "message_posted" /\ type = "MESSAGE_UPDATED" -> "handle_googlechat_edit"
      [] body = "message_posted" /\ type # "MESSAGE_UPDATED" -> "handle_googlechat_message"
      [] body = "message_reaction" -> "handle_googlechat_reaction"
      [] body = "message_deleted" -> "handle_googlechat_redaction"
      [] body = "read_receipt_changed" -> "handle_googlechat_read_receipts"
      [] body = "group_viewed" -> "mark_read"

\* C15: once the portal look-up of an event with a group id and a known body
\* has returned, exactly one portal method is called for it, the one its
\* body selects (for message_posted: the edit handler when the type is
\* MESSAGE_UPDATED, else the message handler); no event is dispatched twice.
C15_OneDispatchByBody ==
    [][\A i \in EventIdx :
          /\ (h[i].pc = "lookup" /\ h'[i].pc # "lookup" /\ h[i].body \in Recognized)
                => /\ dispatchLog' = Append(dispatchLog, i)
                   /\ h'[i].pc = "handler"
                   /\ h'[i].handler = ExpectedHandler(h[i].body, h[i].type)
          /\ Cardinality({p \in DOMAIN dispatchLog' : dispatchLog'[p] = i}) <= 1
          /\ h'[i].pc \in {"handler", "logged"} => i \in Range(dispatchLog')]_vars

\* An edit and a read receipt have been dispatched.
C15_Witness ==
    /\ h[1].handler = "handle_googlechat_edit"
    /\ h[2].handler = "handle_googlechat_read_receipts"

\* ================================================= post-connect properties
\* How an on_connect_later task ended.
Ended(k) == ocl[k] \in {"aborted", "died", "done"}
GetSelfFailed(k) == ocl[k] = "aborted"
PushedConnected(k) == ocl[k] = "done"

\* C16 as claimed: an on_connect_later whose get_self failed still ends with
\* CONNECTED pushed.
C16_ConnectedDespiteGetSelfFailure ==
    \A k \in ConnIdx : (Ended(k) /\ GetSelfFailed(k)) => PushedConnected(k)

\* C16: a failed get_self ends on_connect_later there: the name future is
\* left as it was and nothing more is pushed by that task; a failed custom
\* puppet step or a failed sync() lets the task go on, and the task that got
\* past sync() pushes CONNECTED.
C16_GetSelfFailureEndsSequence ==
    [][\A k \in ConnIdx :
          /\ PostSelfFail(k) => (ocl'[k] = "aborted" /\ name_future' = name_future)
          /\ ocl[k] = "aborted" => ocl'[k] = "aborted"
          /\ PuppetStep(k, FALSE) => ocl'[k] = "sync"
          /\ SyncStep(k, FALSE) => ocl'[k] = "pushing"
          /\ (ocl[k] = "pushing" /\ ocl'[k] # "pushing") => PushedConnected(k)']_vars

\* The first connect's get_self failed with a client at hand, and the loop
\* went on.
C16_Witness ==
    /\ GetSelfFailed(1) /\ client
    /\ lpc = "sleep"

\* C19: every on_connect_later that ended, and whose get_self did not fail,
\* ran to its end and pushed CONNECTED; then the name future is resolved.
C19_PostConnectCompletes ==
    \A k \in ConnIdx :
        /\ (Ended(k) /\ ~GetSelfFailed(k)) => PushedConnected(k)
        /\ PushedConnected(k) => name_future = "resolved"

\* ============================================================ sync properties
Min(a, b) == IF a < b THEN a ELSE b
Convs(s) == {s[i].conv : i \in 1..Len(s)}
Unmirrored0(item) == item.conv \notin mirror0
\* The first n items of s.
FirstItems(s, n) == SubSeq(s, 1, Min(n, Len(s)))

\* C17 as claimed: sync() creates rooms for exactly the first max_sync of the
\* conversations that had no room, taken in the order of the sorted list.
C17_CreatesFirstNUnmirrored ==
    syncpc = "done" =>
        Range(created) = Convs(FirstItems(SelectSeq(items, Unmirrored0), max_sync))

\* C17: sync() visits the conversations in descending order of
\* sort_timestamp, each once; it creates rooms for exactly the conversations
\* without a room among the first max_sync places of that order, each once;
\* it updates exactly the conversations that had a room and creates none of
\* them; all other conversations are left without a room.
C17_CreatesUnmirroredAmongFirstN ==
    syncpc = "done" =>
        /\ Len(visited) = Len(world) /\ Convs(visited) = Convs(world)
        /\ \A i, j \in 1..Len(visited) : i < j => visited[i].ts >= visited[j].ts
        /\ Range(created) = {c \in Convs(FirstItems(items, max_sync)) : c \notin mirror0}
        /\ Len(created) = Cardinality(Range(created))
        /\ Range(updated) = Convs(world) \cap mirror0
        /\ Range(created) \cap mirror0 = {}
        /\ mirror = mirror0 \cup Range(created)

\* A run in which a conversation with a room holds one of the first max_sync
\* places, one room was created, one updated and one conversation left alone.
C17_Witness ==
    /\ syncpc = "done"
    /\ Len(created) = 1 /\ Len(updated) = 1
    /\ Convs(world) \ mirror # {}
    /\ items[1].conv \in mirror0
    /\ max_sync = 2

\* ===================================================== session properties
\* logout() has cleared the session in this step.
LogoutClears == spc # "done" /\ spc' = "done" /\ smode' = "logout"

\* C18 as claimed: no step removes an entry of the user or group cache.
C18_EntriesNeverRemoved ==
    [][users \subseteq users' /\ groups \subseteq groups']_vars

\* C18: only logout() removes cache entries, and it empties both caches; a
\* remote request names only ids that are not cached when it is sent, and
\* an answer is stored only under ids that are not cached, so no entry is
\* replaced.
C18_OnlyLogoutRemovesEntries ==
    [][/\ IF LogoutClears
          THEN users' = {} /\ groups' = {}
          ELSE users \subseteq users' /\ groups \subseteq groups'
       /\ \A t \in Tasks :
             (pc[t] # "fetch" /\ pc'[t] = "fetch")
                 => Range(req'[t]) \cap CacheOf(op'[t]) = {}
       /\ \A t \in Tasks :
             (pc[t] = "fetch" /\ pc'[t] = "done" /\ res'[t] # "fetch_error")
                 => (CacheOf(op[t])' \ CacheOf(op[t])) \subseteq Range(req[t])
                    /\ Range(req[t]) \cap CacheOf(op[t]) = {}]_vars

\* logout() has emptied a cache that held u1, which no fetch had failed for.
C18_Witness ==
    /\ spc = "done"
    /\ fetchCount["u1"] = 1 /\ "u1" \notin lastFailed /\ clean
    /\ \E t \in Tasks : op[t] = "get_users" /\ res[t] = "ok"
    /\ users = {}

\* C20: every key of by_gcid that maps to the session is the session's gcid,
\* and once logout() has completed the session has no key in by_gcid and no
\* gcid.
C20_IndexMatchesGcid ==
    /\ \A k \in by_gcid : gcid = k
    /\ spc = "done" => (by_gcid = {} /\ gcid = NoId)

\* A step in which push_bridge_state(CONNECTED) is made: the last step of an
\* on_connect_later task or of on_reconnect.
PushesConnected ==
    \/ \E k \in ConnIdx : ocl[k] = "pushing" /\ ocl'[k] = "done"
    \/ epc = "on_reconnect" /\ epc' = "idle"

\* C21: CONNECTED is pushed only while self.connected is true; so it never
\* follows the TRANSIENT_DISCONNECT of on_disconnect without an on_connect or
\* on_reconnect in between.
C21_ConnectedOnlyWhileConnected ==
    [][PushesConnected => (connected /\ status' = "CONNECTED")]_vars

====
